---------------------------- MODULE Spec2Model ----------------------------
(***************************************************************************)
(* A model of message-analysis.py: the conversation classifier             *)
(* (get_dm_chat_ids, get_group_chat_ids, filter_groups), the joiner        *)
(* (merge_data), the monthly top-N aggregator (get_top_senders_by_month),  *)
(* the ranker (compute_sender_scores) and the script entry point.          *)
(*                                                                         *)
(* Each function is driven by its own specification (SpecClassifier,       *)
(* SpecMerge, SpecTop, SpecRanker, SpecMain): Init draws the function's    *)
(* input from a bounded set, the actions are the steps of its code.  The   *)
(* variables of the other functions stay at their idle values.             *)
(***************************************************************************)
EXTENDS Integers, Sequences, FiniteSets, TLC

VARIABLES
    \* ---- classifier (get_dm_chat_ids / get_group_chat_ids / filter_groups)
    df,               \* the table scanned: a sequence of [chat_id, sender] rows
    fn,               \* which of the three functions is running
    pc,               \* "idle" | "scan" | "filter" | "done"
    idx,              \* number of rows the for-loop has consumed
    ids_to_senders,   \* the dict, as its (key, value) items in insertion order
    banned_ids,       \* the set
    group_result,     \* what get_group_chat_ids returned
    dm_result,        \* what get_dm_chat_ids returned: a function sender -> id
    filtered,         \* the results of the successive filter_groups calls
    \* ---- joiner (merge_data)
    messages, handles, chat_message_joins, df_messages, mpc,
    \* ---- get_top_senders_by_month
    tdf, top_x, grouped, sorted_data, top, tpc,
    \* ---- compute_sender_scores
    top_senders_by_month, ridx, senders_to_scores, cur_year_month, cur_rank,
    sorted_items, sender_scores, rpc,
    \* ---- __main__
    argv, stdout, exit_status, main_pc

classifierVars == <<df, fn, pc, idx, ids_to_senders, banned_ids, group_result,
                    dm_result, filtered>>
mergeVars == <<messages, handles, chat_message_joins, df_messages, mpc>>
topVars == <<tdf, top_x, grouped, sorted_data, top, tpc>>
rankerVars == <<top_senders_by_month, ridx, senders_to_scores, cur_year_month,
                cur_rank, sorted_items, sender_scores, rpc>>
mainVars == <<argv, stdout, exit_status, main_pc>>
vars == <<classifierVars, mergeVars, topVars, rankerVars, mainVars>>

-----------------------------------------------------------------------------
(* Python values.  A sender is a str, or one of the two nulls a pandas     *)
(* object column holds: None (a NULL read from SQL) and NaN (the fill of   *)
(* an unmatched left join).  Both are written here as reserved strings.    *)

None == "<None>"
NaN == "<NaN>"

\* bool(x) of a sender or of dict.get's default: None and "" are falsy,
\* NaN (a non-zero float) and every non-empty str are truthy.
Truthy(x) == x \notin {None, ""}

\* a != b in Python: NaN differs from everything, itself included.
PyNeq(a, b) == a # b \/ a = NaN \/ b = NaN

IsNull(x) == x \in {None, NaN}

-----------------------------------------------------------------------------
(* Bounds and input domains *)

MaxRows == 3

\* conversation ids are the non-null ids of the table; a row whose chat_id is
\* NaN (a message without membership link) is not among the classifier's inputs
ChatIds == {1, 2}
ClassifierSenders == {"A", "B", "", None, NaN}
ClassifierRows == [chat_id : ChatIds, sender : ClassifierSenders]

SeqsUpTo(S, n) == UNION {[1..k -> S] : k \in 0..n}

Range(s) == {s[i] : i \in DOMAIN s}

-----------------------------------------------------------------------------
(* The dict ids_to_senders: a sequence of [key, value] items, insertion-   *)
(* ordered as a Python dict is.                                            *)

DictKeys(d) == {d[i].key : i \in DOMAIN d}

\* d.get(k): the value, or None when k is no key
DictGet(d, k) ==
    IF k \in DictKeys(d)
    THEN LET i == CHOOSE j \in DOMAIN d : d[j].key = k IN d[i].value
    ELSE None

\* d[k] = v: an existing key keeps its place, a new key goes last
DictSet(d, k, v) ==
    IF k \in DictKeys(d)
    THEN [i \in DOMAIN d |-> IF d[i].key = k THEN [key |-> k, value |-> v] ELSE d[i]]
    ELSE Append(d, [key |-> k, value |-> v])

\* for id in ks: del d[id]
DictDel(d, ks) == SelectSeq(d, LAMBDA it : it.key \notin ks)

-----------------------------------------------------------------------------
(* The classifier: the loop body shared by get_dm_chat_ids and             *)
(* get_group_chat_ids.                                                     *)

\* mutant: a row that carries the recorded sender again lifts the ban
ScanStepUnban(st, row) ==
    LET got == DictGet(st.ids_to_senders, row.chat_id) IN
    IF ~Truthy(got)
    THEN [st EXCEPT !.ids_to_senders = DictSet(@, row.chat_id, row.sender)]
    ELSE IF PyNeq(got, row.sender)
         THEN [st EXCEPT !.banned_ids = @ \cup {row.chat_id}]
         ELSE [st EXCEPT !.banned_ids = @ \ {row.chat_id}]

\* one iteration of "for index, row in df_messages.iterrows()"
ScanStep(st, row) ==
    LET got == DictGet(st.ids_to_senders, row.chat_id) IN
    IF ~Truthy(got)
    THEN [st EXCEPT !.ids_to_senders = DictSet(@, row.chat_id, row.sender)]
    ELSE IF PyNeq(got, row.sender)
         THEN [st EXCEPT !.banned_ids = @ \cup {row.chat_id}]
         ELSE st

ScanInit == [ids_to_senders |-> <<>>, banned_ids |-> {}]

\* the whole loop over a table
RECURSIVE ScanFrom(_, _, _)
ScanFrom(st, t, i) ==
    IF i > Len(t) THEN st ELSE ScanFrom(ScanStep(st, t[i]), t, i + 1)

ScanAll(t) == ScanFrom(ScanInit, t, 1)

get_group_chat_ids(t) == ScanAll(t).banned_ids

\* mutant: the first id of a sender is kept, not the last
InvertFirstWins(d) ==
    LET senders == {d[i].value : i \in DOMAIN d} IN
    [s \in senders |->
        LET first == CHOOSE i \in DOMAIN d :
                        /\ d[i].value = s
                        /\ \A j \in DOMAIN d : d[j].value = s => i <= j
        IN d[first].key]

\* {sender: id for id, sender in ids_to_senders.items()}: a later item
\* overwrites an earlier one with the same sender
Invert(d) ==
    LET senders == {d[i].value : i \in DOMAIN d} IN
    [s \in senders |->
        LET last == CHOOSE i \in DOMAIN d :
                        /\ d[i].value = s
                        /\ \A j \in DOMAIN d : d[j].value = s => j <= i
        IN d[last].key]

\* mutant: the mask is not negated, the banned rows are the ones kept
filter_groups_kept_banned(t) ==
    LET banned == get_group_chat_ids(t) IN
    SelectSeq(t, LAMBDA row : row.chat_id \in banned)

\* df_messages[~df_messages["chat_id"].isin(banned_ids)]
filter_groups(t) ==
    LET banned == get_group_chat_ids(t) IN
    SelectSeq(t, LAMBDA row : row.chat_id \notin banned)

MaxFilterCalls == 2

ClassifierIdle ==
    /\ df = <<>> /\ fn = "none" /\ pc = "idle" /\ idx = 0
    /\ ids_to_senders = <<>> /\ banned_ids = {}
    /\ group_result = {} /\ dm_result = <<>> /\ filtered = <<>>

ClassifierInit ==
    /\ df \in SeqsUpTo(ClassifierRows, MaxRows)
    /\ fn \in {"get_dm_chat_ids", "get_group_chat_ids", "filter_groups"}
    /\ pc = IF fn = "filter_groups" THEN "filter" ELSE "scan"
    /\ idx = 0
    /\ ids_to_senders = <<>> /\ banned_ids = {}
    /\ group_result = {} /\ dm_result = <<>> /\ filtered = <<>>

\* the loop body, on the next row
ScanRow ==
    /\ pc = "scan" /\ idx < Len(df)
    /\ LET st == ScanStep([ids_to_senders |-> ids_to_senders,
                           banned_ids |-> banned_ids], df[idx + 1]) IN
         /\ ids_to_senders' = st.ids_to_senders
         /\ banned_ids' = st.banned_ids
    /\ idx' = idx + 1
    /\ UNCHANGED <<df, fn, pc, group_result, dm_result, filtered>>
    /\ UNCHANGED <<mergeVars, topVars, rankerVars, mainVars>>

\* get_group_chat_ids: return banned_ids
GroupReturn ==
    /\ pc = "scan" /\ idx = Len(df) /\ fn = "get_group_chat_ids"
    /\ group_result' = banned_ids
    /\ pc' = "done"
    /\ UNCHANGED <<df, fn, idx, ids_to_senders, banned_ids, dm_result, filtered>>
    /\ UNCHANGED <<mergeVars, topVars, rankerVars, mainVars>>

\* get_dm_chat_ids: delete the banned ids, invert, return
DmReturn ==
    /\ pc = "scan" /\ idx = Len(df) /\ fn = "get_dm_chat_ids"
    /\ ids_to_senders' = DictDel(ids_to_senders, banned_ids)
    /\ dm_result' = Invert(ids_to_senders')
    /\ pc' = "done"
    /\ UNCHANGED <<df, fn, idx, banned_ids, group_result, filtered>>
    /\ UNCHANGED <<mergeVars, topVars, rankerVars, mainVars>>

\* df_messages = filter_groups(df_messages), called on the table and then
\* again on what it returned
FilterGroups ==
    /\ pc = "filter" /\ Len(filtered) < MaxFilterCalls
    /\ LET input == IF filtered = <<>> THEN df ELSE filtered[Len(filtered)] IN
         filtered' = Append(filtered, filter_groups(input))
    /\ UNCHANGED <<df, fn, pc, idx, ids_to_senders, banned_ids, group_result,
                   dm_result>>
    /\ UNCHANGED <<mergeVars, topVars, rankerVars, mainVars>>


-----------------------------------------------------------------------------
(* The joiner, merge_data.  A message row is [message_id, handle_id]; the  *)
(* other ten columns of the selection are carried through the joins        *)
(* untouched and are left out.  message_id and handle_id are the ROWIDs    *)
(* of their tables (get_messages, get_handles rename them), so each is     *)
(* unique in its own table; chat_message_join is any list of links.        *)

MaxMessages == 2
MaxLinks == 2

MessageHandleIds == {0, 1}        \* handle_id 0: the message has no handle
HandleSender(h) == IF h = 1 THEN "A" ELSE "B"

MessageTables ==
    UNION {{[i \in 1..n |-> [message_id |-> i, handle_id |-> f[i]]] :
              f \in [1..n -> MessageHandleIds]} : n \in 0..MaxMessages}

\* the handle table with the rows of the handle ids in hs, in ROWID order
HandleTable(hs) ==
    LET both == <<[handle_id |-> 1, sender |-> HandleSender(1)],
                  [handle_id |-> 2, sender |-> HandleSender(2)]>>
    IN SelectSeq(both, LAMBDA r : r.handle_id \in hs)

HandleTables == {HandleTable(hs) : hs \in SUBSET {1, 2}}

LinkRows == [chat_id : ChatIds, message_id : 1..(MaxMessages + 1)]

\* the rows of right whose key column equals k, in right's order
Matches(right, col, k) == SelectSeq(right, LAMBDA r : r[col] = k)

\* mutant: how="inner", a left row without a match is dropped
RECURSIVE InnerJoinLinks(_, _)
InnerJoinLinks(left, right) ==
    IF left = <<>> THEN <<>>
    ELSE LET l == Head(left)
             m == Matches(right, "message_id", l.message_id)
         IN [i \in 1..Len(m) |->
                [message_id |-> l.message_id, handle_id |-> l.handle_id,
                 sender |-> l.sender, chat_id |-> m[i].chat_id]]
            \o InnerJoinLinks(Tail(left), right)

\* pd.merge(messages[...], handles[["handle_id", "sender"]],
\*          on="handle_id", how="left")
RECURSIVE LeftJoinHandles(_, _)
LeftJoinHandles(left, right) ==
    IF left = <<>> THEN <<>>
    ELSE LET l == Head(left)
             m == Matches(right, "handle_id", l.handle_id)
             rows == IF m = <<>>
                     THEN <<[message_id |-> l.message_id,
                             handle_id |-> l.handle_id, sender |-> NaN]>>
                     ELSE [i \in 1..Len(m) |->
                             [message_id |-> l.message_id,
                              handle_id |-> l.handle_id,
                              sender |-> m[i].sender]]
         IN rows \o LeftJoinHandles(Tail(left), right)

\* pd.merge(merge_level_1, chat_message_joins[["chat_id", "message_id"]],
\*          on="message_id", how="left")
RECURSIVE LeftJoinLinks(_, _)
LeftJoinLinks(left, right) ==
    IF left = <<>> THEN <<>>
    ELSE LET l == Head(left)
             m == Matches(right, "message_id", l.message_id)
             rows == IF m = <<>>
                     THEN <<[message_id |-> l.message_id,
                             handle_id |-> l.handle_id,
                             sender |-> l.sender, chat_id |-> NaN]>>
                     ELSE [i \in 1..Len(m) |->
                             [message_id |-> l.message_id,
                              handle_id |-> l.handle_id,
                              sender |-> l.sender,
                              chat_id |-> m[i].chat_id]]
         IN rows \o LeftJoinLinks(Tail(left), right)

MergeIdle ==
    /\ messages = <<>> /\ handles = <<>> /\ chat_message_joins = <<>>
    /\ df_messages = <<>> /\ mpc = "idle"

MergeInit ==
    /\ messages \in MessageTables
    /\ handles \in HandleTables
    /\ chat_message_joins \in SeqsUpTo(LinkRows, MaxLinks)
    /\ df_messages = <<>>
    /\ mpc = "merge_level_1"

\* merge_level_1 = pd.merge(messages, handles)
MergeLevel1 ==
    /\ mpc = "merge_level_1"
    /\ df_messages' = LeftJoinHandles(messages, handles)
    /\ mpc' = "df_messages"
    /\ UNCHANGED <<messages, handles, chat_message_joins>>
    /\ UNCHANGED <<classifierVars, topVars, rankerVars, mainVars>>

\* df_messages = pd.merge(merge_level_1, chat_message_joins); return
MergeLevel2 ==
    /\ mpc = "df_messages"
    /\ df_messages' = LeftJoinLinks(df_messages, chat_message_joins)
    /\ mpc' = "done"
    /\ UNCHANGED <<messages, handles, chat_message_joins>>
    /\ UNCHANGED <<classifierVars, topVars, rankerVars, mainVars>>

-----------------------------------------------------------------------------
(* get_top_senders_by_month.  A row of the table is [year_month, sender];  *)
(* its message_id is its position, never null.  Periods are numbered in    *)
(* calendar order; SenderOrder lists the sender strings in the order       *)
(* pandas sorts group keys (lexicographic).                                *)

MaxTopMessages == 4
MaxTopX == 2

Periods == {1, 2}
SenderOrder == <<"A", "B", "C">>
TopSenders == Range(SenderOrder) \cup {NaN}
TopRows == [year_month : Periods, sender : TopSenders]

\* the number of rows of t of period p and sender s
CountOf(t, p, s) ==
    Cardinality({i \in DOMAIN t : t[i].year_month = p /\ t[i].sender = s})

\* the groups of one period, keys in sorted order; a NaN key makes no group
\* (groupby's dropna) and an absent key makes none either
PeriodGroups(t, p) ==
    LET all == [k \in DOMAIN SenderOrder |->
                   [year_month |-> p, sender |-> SenderOrder[k],
                    message_id |-> CountOf(t, p, SenderOrder[k])]]
    IN SelectSeq(all, LAMBDA g : g.message_id > 0)

\* df_messages.groupby(["year_month", "sender"]).agg({"message_id": "count"})
RECURSIVE GroupFrom(_, _)
GroupFrom(t, p) ==
    IF p \notin Periods THEN <<>>
    ELSE PeriodGroups(t, p) \o GroupFrom(t, p + 1)

Grouped(t) == GroupFrom(t, 1)

\* mutant: ascending=[True, True]
SortsBeforeAscending(a, b) ==
    \/ a.year_month < b.year_month
    \/ a.year_month = b.year_month /\ a.message_id < b.message_id

\* the order of sort_values(["year_month", "message_id"],
\*                          ascending=[True, False])
SortsBefore(a, b) ==
    \/ a.year_month < b.year_month
    \/ a.year_month = b.year_month /\ a.message_id > b.message_id

\* x put into the sorted sequence s after every row that does not sort
\* after it: rows that tie keep the order they came in
RECURSIVE InsertSorted(_, _)
InsertSorted(s, x) ==
    IF s = <<>> THEN <<x>>
    ELSE IF SortsBefore(x, Head(s)) THEN <<x>> \o s
         ELSE <<Head(s)>> \o InsertSorted(Tail(s), x)

RECURSIVE SortFrom(_, _, _)
SortFrom(acc, g, i) ==
    IF i > Len(g) THEN acc ELSE SortFrom(InsertSorted(acc, g[i]), g, i + 1)

SortValues(g) == SortFrom(<<>>, g, 1)

\* sorted_data.groupby("year_month").head(n): a row stays when fewer than n
\* rows of its period come before it
GroupHead(sd, n) ==
    LET pos(i) == Cardinality({j \in 1..(i - 1) :
                                  sd[j].year_month = sd[i].year_month})
        keep == {i \in DOMAIN sd : pos(i) < n}
        RECURSIVE Take(_)
        Take(i) == IF i > Len(sd) THEN <<>>
                   ELSE (IF i \in keep THEN <<sd[i]>> ELSE <<>>) \o Take(i + 1)
    IN Take(1)

TopIdle ==
    /\ tdf = <<>> /\ top_x = 0 /\ grouped = <<>> /\ sorted_data = <<>>
    /\ top = <<>> /\ tpc = "idle"

TopInit ==
    /\ tdf \in SeqsUpTo(TopRows, MaxTopMessages)
    /\ top_x \in 0..MaxTopX
    /\ grouped = <<>> /\ sorted_data = <<>> /\ top = <<>>
    /\ tpc = "group"

TopGroup ==
    /\ tpc = "group"
    /\ grouped' = Grouped(tdf)
    /\ tpc' = "sort"
    /\ UNCHANGED <<tdf, top_x, sorted_data, top>>
    /\ UNCHANGED <<classifierVars, mergeVars, rankerVars, mainVars>>

TopSort ==
    /\ tpc = "sort"
    /\ sorted_data' = SortValues(grouped)
    /\ tpc' = "head"
    /\ UNCHANGED <<tdf, top_x, grouped, top>>
    /\ UNCHANGED <<classifierVars, mergeVars, rankerVars, mainVars>>

TopHead ==
    /\ tpc = "head"
    /\ top' = GroupHead(sorted_data, top_x)
    /\ tpc' = "done"
    /\ UNCHANGED <<tdf, top_x, grouped, sorted_data>>
    /\ UNCHANGED <<classifierVars, mergeVars, rankerVars, mainVars>>

-----------------------------------------------------------------------------
(* compute_sender_scores.  Its argument is the index of the table          *)
(* get_top_senders_by_month returns: (year_month, sender) pairs, the       *)
(* periods in calendar order, the senders of one period distinct.  Seven   *)
(* senders let one period reach rank 6, where 5 - rank is negative.  The   *)
(* first period takes its senders in the order of RankerSenders (the       *)
(* function treats sender names alike, so this loses no case up to         *)
(* renaming); the second period takes them in every order.                 *)

MaxTopRows == 8

TopScore == 5

RankerSenders == <<"A", "B", "C", "D", "E", "F", "G">>
RankerPeriods == <<"2022-01", "2022-02">>

Min(a, b) == IF a < b THEN a ELSE b

InjectiveSeqs(S, n) ==
    UNION {{f \in [1..k -> S] : \A i, j \in 1..k : f[i] = f[j] => i = j} :
             k \in 0..Min(n, Cardinality(S))}

IndexRows(p, ss) == [i \in DOMAIN ss |-> [year_month |-> p, sender |-> ss[i]]]

TopTables ==
    {IndexRows(RankerPeriods[1], SubSeq(RankerSenders, 1, k1)) \o
     IndexRows(RankerPeriods[2], s2) :
        k1 \in 0..Min(MaxTopRows, Len(RankerSenders)),
        s2 \in InjectiveSeqs(Range(RankerSenders), MaxTopRows)}

\* mutant: a score never drops below zero
ScoreFloored(rank) == IF TopScore - rank < 0 THEN 0 ELSE TopScore - rank

\* 5 - cur_rank
ScoreOf(rank) == TopScore - rank

\* senders_to_scores[sender] += n on a defaultdict(lambda: 0)
DictAdd(d, k, n) ==
    IF k \in DictKeys(d)
    THEN [i \in DOMAIN d |->
            IF d[i].key = k THEN [key |-> k, value |-> d[i].value + n] ELSE d[i]]
    ELSE Append(d, [key |-> k, value |-> 0 + n])

\* one iteration of "for year_month, sender in top_senders_by_month.index"
WalkStep(st, row) ==
    LET new == row.year_month # st.cur_year_month
        rank == IF new THEN 0 ELSE st.cur_rank
    IN [senders_to_scores |-> DictAdd(st.senders_to_scores, row.sender,
                                      ScoreOf(rank)),
        cur_year_month |-> IF new THEN row.year_month ELSE st.cur_year_month,
        cur_rank |-> rank + 1]

\* mutant: sorted(...) without reverse=True
ItemBeforeAscending(a, b) == a.value < b.value

\* the order of sorted(items, key=lambda x: x[1], reverse=True)
ItemBefore(a, b) == a.value > b.value

\* sorted() is stable, also with reverse=True: items that tie keep their order
RECURSIVE InsertItem(_, _)
InsertItem(s, x) ==
    IF s = <<>> THEN <<x>>
    ELSE IF ItemBefore(x, Head(s)) THEN <<x>> \o s
         ELSE <<Head(s)>> \o InsertItem(Tail(s), x)

RECURSIVE SortItemsFrom(_, _, _)
SortItemsFrom(acc, d, i) ==
    IF i > Len(d) THEN acc ELSE SortItemsFrom(InsertItem(acc, d[i]), d, i + 1)

SortedItems(d) == SortItemsFrom(<<>>, d, 1)

Digits == <<"0", "1", "2", "3", "4", "5", "6", "7", "8", "9">>

RECURSIVE StrNat(_)
StrNat(n) == IF n < 10 THEN Digits[n + 1]
             ELSE StrNat(n \div 10) \o Digits[(n % 10) + 1]

\* str(value) of an int
Str(n) == IF n < 0 THEN "-" \o StrNat(0 - n) ELSE StrNat(n)

\* key + ": " + str(value)
FormatItem(it) == it.key \o ": " \o Str(it.value)

RankerIdle ==
    /\ top_senders_by_month = <<>> /\ ridx = 0 /\ senders_to_scores = <<>>
    /\ cur_year_month = "" /\ cur_rank = 0
    /\ sorted_items = <<>> /\ sender_scores = <<>> /\ rpc = "idle"

RankerInit ==
    /\ top_senders_by_month \in {t \in TopTables : Len(t) <= MaxTopRows}
    /\ ridx = 0 /\ senders_to_scores = <<>>
    /\ cur_year_month = "" /\ cur_rank = 0
    /\ sorted_items = <<>> /\ sender_scores = <<>>
    /\ rpc = "walk"

\* the loop body, on the next row of the index
WalkRow ==
    /\ rpc = "walk" /\ ridx < Len(top_senders_by_month)
    /\ LET st == WalkStep([senders_to_scores |-> senders_to_scores,
                           cur_year_month |-> cur_year_month,
                           cur_rank |-> cur_rank],
                          top_senders_by_month[ridx + 1]) IN
         /\ senders_to_scores' = st.senders_to_scores
         /\ cur_year_month' = st.cur_year_month
         /\ cur_rank' = st.cur_rank
    /\ ridx' = ridx + 1
    /\ UNCHANGED <<top_senders_by_month, sorted_items, sender_scores, rpc>>
    /\ UNCHANGED <<classifierVars, mergeVars, topVars, mainVars>>

\* sort the items by score, format them, return
ScoresReturn ==
    /\ rpc = "walk" /\ ridx = Len(top_senders_by_month)
    /\ sorted_items' = SortedItems(senders_to_scores)
    /\ sender_scores' = [i \in DOMAIN sorted_items' |-> FormatItem(sorted_items'[i])]
    /\ rpc' = "done"
    /\ UNCHANGED <<top_senders_by_month, ridx, senders_to_scores,
                   cur_year_month, cur_rank>>
    /\ UNCHANGED <<classifierVars, mergeVars, topVars, mainVars>>

-----------------------------------------------------------------------------
(* The script entry point.  sys.exit(1) stands at the indentation of the   *)
(* if, not inside it: it runs whatever len(sys.argv) is, and lines 224 to  *)
(* 242 (connect, load, merge, filter, print the two sections) are never    *)
(* reached.                                                                *)

MaxArgs == 4

ScriptName == "message-analysis.py"
ArgWords == {"chat.db", "backup.db", "-v"}
UsageError == "ERROR: Please provide the path to your chat.db file."

MainIdle ==
    /\ argv = <<>> /\ stdout = <<>> /\ exit_status = <<>> /\ main_pc = "idle"

MainInit ==
    /\ argv \in {<<ScriptName>> \o a : a \in SeqsUpTo(ArgWords, MaxArgs)}
    /\ stdout = <<>>
    /\ exit_status = <<>>          \* <<>> while running, <<n>> after exit(n)
    /\ main_pc = "check_args"

\* if len(sys.argv) < 2: print(...)
CheckArgs ==
    /\ main_pc = "check_args"
    /\ stdout' = IF Len(argv) < 2 THEN Append(stdout, UsageError) ELSE stdout
    /\ main_pc' = "exit"
    /\ UNCHANGED <<argv, exit_status>>
    /\ UNCHANGED <<classifierVars, mergeVars, topVars, rankerVars>>

\* sys.exit(1)
SysExit ==
    /\ main_pc = "exit"
    /\ exit_status' = <<1>>
    /\ main_pc' = "exited"
    /\ UNCHANGED <<argv, stdout>>
    /\ UNCHANGED <<classifierVars, mergeVars, topVars, rankerVars>>

-----------------------------------------------------------------------------
(* Specifications *)

InitClassifier == ClassifierInit /\ MergeIdle /\ TopIdle /\ RankerIdle /\ MainIdle
NextClassifier == ScanRow \/ GroupReturn \/ DmReturn \/ FilterGroups
SpecClassifier == InitClassifier /\ [][NextClassifier]_vars

InitMerge == ClassifierIdle /\ MergeInit /\ TopIdle /\ RankerIdle /\ MainIdle
NextMerge == MergeLevel1 \/ MergeLevel2
SpecMerge == InitMerge /\ [][NextMerge]_vars

InitTop == ClassifierIdle /\ MergeIdle /\ TopInit /\ RankerIdle /\ MainIdle
NextTop == TopGroup \/ TopSort \/ TopHead
SpecTop == InitTop /\ [][NextTop]_vars

InitRanker == ClassifierIdle /\ MergeIdle /\ TopIdle /\ RankerInit /\ MainIdle
NextRanker == WalkRow \/ ScoresReturn
SpecRanker == InitRanker /\ [][NextRanker]_vars

InitMain == ClassifierIdle /\ MergeIdle /\ TopIdle /\ RankerIdle /\ MainInit
NextMain == CheckArgs \/ SysExit
SpecMain == InitMain /\ [][NextMain]_vars

Init == InitClassifier
Next == NextClassifier
Spec == SpecClassifier

-----------------------------------------------------------------------------
(* Properties of the classifier (SpecClassifier) *)

SeenIds(t) == {t[i].chat_id : i \in DOMAIN t}

RowsOf(t, id) == {i \in DOMAIN t : t[i].chat_id = id}

\* the index of the first row of id in t
FirstRow(t, id) == CHOOSE i \in RowsOf(t, id) : \A j \in RowsOf(t, id) : i <= j

\* C2: after get_group_chat_ids has scanned the table, all the rows of a
\* conversation id that is not in the returned set carry the same sender.
C2_UnbannedIdsHaveOneSender ==
    (pc = "done" /\ fn = "get_group_chat_ids") =>
        \A id \in SeenIds(df) \ group_result :
            \A i, j \in RowsOf(df, id) : df[i].sender = df[j].sender

\* C6: a scan step never takes an id out of banned_ids, and what the
\* function returns agrees with it: get_group_chat_ids returns every banned
\* id, get_dm_chat_ids returns none of them.
C6_BannedMonotonic ==
    [][ /\ banned_ids \subseteq banned_ids'
        /\ (pc' = "done" /\ fn = "get_group_chat_ids") =>
               banned_ids \subseteq group_result'
        /\ (pc' = "done" /\ fn = "get_dm_chat_ids") =>
               \A s \in DOMAIN dm_result' : dm_result'[s] \notin banned_ids
      ]_vars

\* an id that was banned, then met its first sender again, and is still banned
C6_Witness ==
    /\ pc = "scan"
    /\ \E id \in banned_ids : \E i, j, k \in RowsOf(df, id) :
          /\ i = FirstRow(df, id) /\ i < j /\ j < k /\ k <= idx
          /\ Truthy(df[i].sender) /\ df[i].sender # NaN
          /\ df[j].sender # df[i].sender
          /\ df[k].sender = df[i].sender

\* C8: when the first row of an id has a null sender, that null is the
\* recorded sender after the row, and the id is banned once a later row of
\* the id with a non-null sender has been scanned.
C8_NullFirstSenderBans ==
    pc = "scan" =>
        \A id \in SeenIds(df) :
            LET f == FirstRow(df, id) IN
            IsNull(df[f].sender) =>
                /\ idx = f => DictGet(ids_to_senders, id) = df[f].sender
                /\ \A j \in RowsOf(df, id) :
                      (f < j /\ j <= idx /\ ~IsNull(df[j].sender)) =>
                          id \in banned_ids

\* C9: every (sender, id) of the result is a non-banned id with that recorded
\* sender; the recorded sender of every non-banned id is a key; of the
\* non-banned ids of one sender, the one whose first row is last is kept.
C9_DmLookup ==
    (pc = "done" /\ fn = "get_dm_chat_ids") =>
        LET st == ScanAll(df)
            free == SeenIds(df) \ get_group_chat_ids(df)
            recorded(id) == DictGet(st.ids_to_senders, id)
        IN /\ \A s \in DOMAIN dm_result :
                /\ dm_result[s] \in free
                /\ recorded(dm_result[s]) = s
           /\ \A id \in free : recorded(id) \in DOMAIN dm_result
           /\ \A s \in DOMAIN dm_result : \A id \in free :
                recorded(id) = s =>
                    FirstRow(df, id) <= FirstRow(df, dm_result[s])

\* two non-banned ids of one sender; the kept one is the one seen last
C9_Witness ==
    /\ pc = "done" /\ fn = "get_dm_chat_ids"
    /\ banned_ids = {}
    /\ SeenIds(df) = {1, 2}
    /\ FirstRow(df, 2) < FirstRow(df, 1)
    /\ DOMAIN dm_result = {"A"} /\ dm_result["A"] = 1

\* C10: what filter_groups returns holds no id the classifier bans, and
\* filter_groups of it is the same table, row for row.
C10_FilterGroupsIdempotent ==
    \A k \in DOMAIN filtered :
        /\ get_group_chat_ids(filtered[k]) = {}
        /\ k >= 2 => filtered[k] = filtered[k - 1]

\* filter_groups ran twice on a table of which it dropped some rows and
\* kept others
C10_Witness ==
    /\ Len(filtered) >= 2
    /\ filtered[1] # <<>>
    /\ Len(filtered[1]) < Len(df)

-----------------------------------------------------------------------------
(* Properties of merge_data (SpecMerge) *)

MessageIds(t) == {t[i].message_id : i \in DOMAIN t}

LinksOf(m) ==
    Cardinality({i \in DOMAIN chat_message_joins :
                    chat_message_joins[i].message_id = m})

RowsOfMessage(m) ==
    Cardinality({i \in DOMAIN df_messages : df_messages[i].message_id = m})

\* C5 as stated: every row has a message id, no two rows share one, and
\* there are as many rows as messages.
C5_OneRowPerMessage ==
    mpc = "done" =>
        /\ \A i \in DOMAIN df_messages :
              df_messages[i].message_id \in MessageIds(messages)
        /\ \A i, j \in DOMAIN df_messages :
              df_messages[i].message_id = df_messages[j].message_id => i = j
        /\ Len(df_messages) = Len(messages)

\* C5 amended: every row has the message id of an input message; a message
\* with k membership links has max(1, k) rows; so the message ids are unique
\* and the rows as many as the messages when no message has two links.
C5_RowsPerMessage ==
    mpc = "done" =>
        /\ \A i \in DOMAIN df_messages :
              df_messages[i].message_id \in MessageIds(messages)
        /\ \A m \in MessageIds(messages) :
              RowsOfMessage(m) = IF LinksOf(m) = 0 THEN 1 ELSE LinksOf(m)
        /\ (\A m \in MessageIds(messages) : LinksOf(m) <= 1) =>
              /\ \A i, j \in DOMAIN df_messages :
                    df_messages[i].message_id = df_messages[j].message_id
                        => i = j
              /\ Len(df_messages) = Len(messages)

\* a message in two conversations beside a message in none
C5_Witness ==
    /\ mpc = "done"
    /\ \E m \in MessageIds(messages) : LinksOf(m) = 2 /\ RowsOfMessage(m) = 2
    /\ \E m \in MessageIds(messages) : LinksOf(m) = 0 /\ RowsOfMessage(m) = 1

-----------------------------------------------------------------------------
(* Properties of get_top_senders_by_month (SpecTop).  The senders of a     *)
(* period are the non-null sender values of its rows.                      *)

SendersOfPeriod(p) == {s \in Range(SenderOrder) : CountOf(tdf, p, s) > 0}

KeptOfPeriod(p) == {i \in DOMAIN top : top[i].year_month = p}

\* C4: per period at most top_x rows (all of its senders when they are
\* fewer), one per sender, each with the count of that sender's messages in
\* the period, in descending order of count; no sender left out has more
\* messages than a sender kept.
C4_TopSendersByMonth ==
    tpc = "done" =>
        /\ \A i \in DOMAIN top : top[i].year_month \in Periods
        /\ \A p \in Periods :
            /\ Cardinality(KeptOfPeriod(p)) =
                   Min(top_x, Cardinality(SendersOfPeriod(p)))
            /\ \A i, j \in KeptOfPeriod(p) :
                  /\ top[i].sender = top[j].sender => i = j
                  /\ i < j => top[i].message_id >= top[j].message_id
            /\ \A i \in KeptOfPeriod(p) :
                  /\ top[i].sender \in SendersOfPeriod(p)
                  /\ top[i].message_id = CountOf(tdf, p, top[i].sender)
            /\ \A s \in SendersOfPeriod(p) :
                  (\A i \in KeptOfPeriod(p) : top[i].sender # s) =>
                      \A i \in KeptOfPeriod(p) :
                          CountOf(tdf, p, s) <= top[i].message_id

\* a period with more senders than top_x, the kept one with two messages,
\* and a row without sender
C4_Witness ==
    /\ tpc = "done" /\ top_x >= 1
    /\ \E p \in Periods :
          /\ Cardinality(SendersOfPeriod(p)) > top_x
          /\ \E i \in KeptOfPeriod(p) : top[i].message_id >= 2
    /\ \E i \in DOMAIN tdf : tdf[i].sender = NaN

-----------------------------------------------------------------------------
(* Properties of compute_sender_scores (SpecRanker) *)

\* the rank of row i: the number of rows of its period before it
RankIn(t, i) ==
    Cardinality({j \in 1..(i - 1) : t[j].year_month = t[i].year_month})

\* the sum of 5 - rank over the rows of sender s among the first n
RECURSIVE TotalUpTo(_, _, _)
TotalUpTo(t, s, n) ==
    IF n = 0 THEN 0
    ELSE TotalUpTo(t, s, n - 1) +
         (IF t[n].sender = s THEN 5 - RankIn(t, n) ELSE 0)

SendersOfTable(t) == {t[i].sender : i \in DOMAIN t}

\* C3: after each row the rank counter is one more than the row's rank in
\* its period (so 0 at the first row of a period), each sender's running
\* total is the sum of 5 - rank over its rows so far, and the totals
\* reported are those sums over the whole table.
C3_RankerScores ==
    rpc \in {"walk", "done"} =>
        LET t == top_senders_by_month IN
        /\ DictKeys(senders_to_scores) = {t[i].sender : i \in 1..ridx}
        /\ \A s \in DictKeys(senders_to_scores) :
              DictGet(senders_to_scores, s) = TotalUpTo(t, s, ridx)
        /\ ridx > 0 =>
              /\ cur_year_month = t[ridx].year_month
              /\ cur_rank = RankIn(t, ridx) + 1
        /\ rpc = "done" =>
              \A s \in SendersOfTable(t) :
                  \E k \in DOMAIN sender_scores :
                      sender_scores[k] = s \o ": " \o Str(TotalUpTo(t, s, Len(t)))

\* sender A first of one period (5) and seventh of the next (5 - 6 = -1)
C3_Witness ==
    /\ rpc = "done"
    /\ \E i, j \in DOMAIN top_senders_by_month :
          /\ top_senders_by_month[i].sender = "A"
          /\ top_senders_by_month[j].sender = "A"
          /\ RankIn(top_senders_by_month, i) = 0
          /\ RankIn(top_senders_by_month, j) = 6
    /\ \E k \in DOMAIN sender_scores : sender_scores[k] = "A: 4"
    /\ \E k \in DOMAIN sender_scores : sender_scores[k] = "G: 0"

\* C7: one entry per distinct sender of the table, each "name: score" with
\* the sender's total, and no entry has a smaller score than a later one.
C7_Leaderboard ==
    rpc = "done" =>
        LET t == top_senders_by_month IN
        /\ Len(sender_scores) = Cardinality(SendersOfTable(t))
        /\ Len(sorted_items) = Len(sender_scores)
        /\ \A s \in SendersOfTable(t) :
              Cardinality({k \in DOMAIN sorted_items :
                              sorted_items[k].key = s}) = 1
        /\ \A k \in DOMAIN sender_scores :
              /\ sorted_items[k].value =
                     TotalUpTo(t, sorted_items[k].key, Len(t))
              /\ sender_scores[k] = sorted_items[k].key \o ": " \o
                                    Str(sorted_items[k].value)
        /\ \A i, j \in DOMAIN sorted_items :
              i < j => sorted_items[i].value >= sorted_items[j].value

\* A, B, C in January, B, C, A in February: the order of the result is not
\* the order in which the senders were first met
C7_Witness ==
    /\ rpc = "done"
    /\ Len(top_senders_by_month) = 6
    /\ sender_scores = <<"B: 9", "A: 8", "C: 7">>

-----------------------------------------------------------------------------
(* Properties of the entry point (SpecMain) *)

\* C1: the script exits with status 1 only when no path argument is given
\* (with a path it goes on to load the tables and print the two sections).
C1_ExitOnlyWithoutPath ==
    (main_pc = "exited" /\ exit_status = <<1>>) => Len(argv) < 2

=============================================================================
